---- MODULE Spec2Model ----
(***************************************************************************)
(* Outer-loop state machine of The-Seed: the FSM driver (core/fsm.py), the *)
(* Blackboard (core/blackboard.py), the PythonActionExecutor               *)
(* (core/excution.py), the phase nodes (core/node/*.py and                 *)
(* core/legacy/node/commit.py).                                            *)
(*                                                                         *)
(* Text that the code case-folds (state tokens, next_state values) is a    *)
(* sequence of one-character strings, so that str.lower / str.upper are    *)
(* computed character by character.  Other text is an opaque TLA+ string.  *)
(***************************************************************************)
EXTENDS Integers, Sequences, FiniteSets, TLC

VARIABLES
    state,      \* FSM.state: the value of the FSMState member (fsm.py:44,59)
    bb,         \* FSMContext.blackboard: record of the Blackboard fields
    last        \* history: the last call made and its outcome

vars == <<state, bb, last>>

----------------------------------------------------------------------------
(* Python str.lower() / str.upper() on ASCII text *)

UpperLetters == <<"A","B","C","D","E","F","G","H","I","J","K","L","M",
                  "N","O","P","Q","R","S","T","U","V","W","X","Y","Z">>
LowerLetters == <<"a","b","c","d","e","f","g","h","i","j","k","l","m",
                  "n","o","p","q","r","s","t","u","v","w","x","y","z">>

\* the lower-case / upper-case form of each letter
ToLower == [c \in {UpperLetters[i] : i \in 1..26} |->
              LowerLetters[CHOOSE i \in 1..26 : UpperLetters[i] = c]]
ToUpper == [c \in {LowerLetters[i] : i \in 1..26} |->
              UpperLetters[CHOOSE i \in 1..26 : LowerLetters[i] = c]]

LowerChar(c) == IF c \in DOMAIN ToLower THEN ToLower[c] ELSE c

UpperChar(c) == IF c \in DOMAIN ToUpper THEN ToUpper[c] ELSE c

Lower(s) == [i \in 1..Len(s) |-> LowerChar(s[i])]
Upper(s) == [i \in 1..Len(s) |-> UpperChar(s[i])]

----------------------------------------------------------------------------
(* String literals of the source, spelled as the source spells them *)
T_RUN == <<"R", "U", "N">>
T_OBSERVE == <<"O", "B", "S", "E", "R", "V", "E">>
T_PLAN == <<"P", "L", "A", "N">>
T_ACTION_GEN == <<"A", "C", "T", "I", "O", "N", "_", "G", "E", "N">>
T_REVIEW == <<"R", "E", "V", "I", "E", "W">>
T_COMMIT == <<"C", "O", "M", "M", "I", "T">>
T_NEED_USER == <<"N", "E", "E", "D", "_", "U", "S", "E", "R">>
T_STOP == <<"S", "T", "O", "P">>
T_DONE == <<"D", "O", "N", "E">>
V_observe == <<"o", "b", "s", "e", "r", "v", "e">>
V_plan == <<"p", "l", "a", "n">>
V_action_gen == <<"a", "c", "t", "i", "o", "n", "_", "g", "e", "n">>
V_review == <<"r", "e", "v", "i", "e", "w">>
V_commit == <<"c", "o", "m", "m", "i", "t">>
V_stop == <<"s", "t", "o", "p">>
V_done == <<"d", "o", "n", "e">>
X_Plan == <<"P", "l", "a", "n">>
X_rUn == <<"r", "U", "n">>
X_run == <<"r", "u", "n">>
X_need_user == <<"n", "e", "e", "d", "_", "u", "s", "e", "r">>
X_bogus == <<"b", "o", "g", "u", "s">>
X_empty == <<>>
L_execution_error == <<"e", "x", "e", "c", "u", "t", "i", "o", "n", "_", "e", "r", "r", "o", "r">>
L_missing_result == <<"m", "i", "s", "s", "i", "n", "g", "_", "r", "e", "s", "u", "l", "t">>
L_result_missing_keys == <<"r", "e", "s", "u", "l", "t", "_", "m", "i", "s", "s", "i", "n", "g", "_", "k", "e", "y", "s">>
L_python_execution_failed == <<"p", "y", "t", "h", "o", "n", " ", "e", "x", "e", "c", "u", "t", "i", "o", "n", " ", "f", "a", "i", "l", "e", "d", ":", " ">>
L_missing_result_dict == <<"m", "i", "s", "s", "i", "n", "g", " ", "_", "_", "r", "e", "s", "u", "l", "t", "_", "_", " ", "d", "i", "c", "t">>
L_result_missing_keys_msg == <<"_", "_", "r", "e", "s", "u", "l", "t", "_", "_", " ", "m", "i", "s", "s", "i", "n", "g", " ", "k", "e", "y", "s", ":", " ">>
L_None == <<"N", "o", "n", "e">>
M_boom == <<"b", "o", "o", "m">>
M_hi == <<"h", "i">>
M_seen == <<"s", "e", "e", "n">>
M_hint == <<"h", "i", "n", "t">>

----------------------------------------------------------------------------
(* Python values as far as the Executor looks at them *)

NoneVal == [t |-> "none"]
StrVal(s) == [t |-> "str", s |-> s]
ListVal == [t |-> "list"]
DictVal(d) == [t |-> "dict", d |-> d]
Unbound == [t |-> "unbound"]

\* bool(v): None, "" and the unbound name's default are falsy
Truthy(v) == v.t = "str" /\ v.s # <<>>

\* (v or "") for a text or None
OrEmpty(v) == IF Truthy(v) THEN v.s ELSE <<>>

\* str(v)
StrOf(v) == IF v.t = "str" THEN v.s ELSE L_None

\* dict.get(key, default)
DictGet(d, key, default) == IF key \in DOMAIN d THEN d[key] ELSE default

KeyText(k) ==
    CASE k = "next_state" -> <<"n","s">>
      [] k = "player_message" -> <<"p","m">>
      [] k = "observations" -> <<"o","b">>
      [] k = "next_step_hint" -> <<"h","t">>
      [] OTHER -> <<"x">>

KeyOrder == <<"extra", "next_state", "next_step_hint", "observations", "player_message">>

RECURSIVE JoinKeys(_, _)
\* the keys of ks in sorted order, each followed by a comma
JoinKeys(ks, i) ==
    IF i > Len(KeyOrder) THEN <<>>
    ELSE (IF KeyOrder[i] \in ks THEN KeyText(KeyOrder[i]) \o <<",">> ELSE <<>>)
         \o JoinKeys(ks, i + 1)

RECURSIVE JoinItems(_, _)
JoinItems(d, i) ==
    IF i > Len(KeyOrder) THEN <<>>
    ELSE (IF KeyOrder[i] \in DOMAIN d
          THEN KeyText(KeyOrder[i]) \o <<":">> \o StrOf(d[KeyOrder[i]]) \o <<",">>
          ELSE <<>>)
         \o JoinItems(d, i + 1)

\* str(result) of a dict and f"{sorted(missing)}" of a key set
StrOfDict(d) == <<"{">> \o JoinItems(d, 1) \o <<"}">>
StrOfKeys(ks) == <<"[">> \o JoinKeys(ks, 1) \o <<"]">>

----------------------------------------------------------------------------
(* ExecutionResult and PythonActionExecutor (core/excution.py) *)

ExecutionResult(success, next_state, player_message, observations, next_step_hint, raw_result, error) ==
    [success |-> success, next_state |-> next_state,
     player_message |-> player_message, observations |-> observations,
     next_step_hint |-> next_step_hint, raw_result |-> raw_result,
     error |-> error]

to_dict(r) ==
    [success |-> r.success, next_state |-> r.next_state,
     player_message |-> r.player_message, observations |-> r.observations,
     next_step_hint |-> r.next_step_hint, raw_result |-> r.raw_result,
     error |-> r.error]

REQUIRED_KEYS == {"next_state", "player_message", "observations", "next_step_hint"}

\* Exception classes a run of generated code can raise; SystemExit derives
\* from BaseException only, so `except Exception` does not catch it.
ExcClasses == {"SyntaxError", "ZeroDivisionError", "SystemExit"}
IsException(cls) == cls \in {"SyntaxError", "ZeroDivisionError", "NameError"}

\* A code string, described by what the code looks at and by what exec() of
\* it does in a fresh scope: whether it is the empty string, whether it
\* contains a denylisted substring / the "__result__" marker, the exception
\* it raises ("none" if it runs to its end), str(exc), and the value the
\* name __result__ is bound to afterwards.
Code(empty, banned, marker, exc, msg, result) ==
    [empty |-> empty, banned |-> banned, marker |-> marker,
     exc |-> exc, msg |-> msg, result |-> result]

EmptyCode == Code(TRUE, FALSE, FALSE, "none", <<>>, Unbound)

\* excution.py:49-61
ExecutionErrorResult(code) ==
    ExecutionResult(FALSE, T_REVIEW, L_python_execution_failed \o code.msg,
                    <<>>, L_execution_error, NoneVal, StrVal(code.msg))

\* a missing __result__ reported as an execution error
MissingResult_AsExecutionError ==
    ExecutionResult(FALSE, T_REVIEW, L_missing_result_dict, <<>>,
                    L_execution_error, NoneVal, StrVal(L_execution_error))

\* excution.py:63-74
MissingResult ==
    ExecutionResult(FALSE, T_REVIEW, L_missing_result_dict, <<>>,
                    L_missing_result, NoneVal, StrVal(L_missing_result))

\* excution.py:76
MissingKeys(result) == REQUIRED_KEYS \ DOMAIN result.d

\* the missing-keys result without the partial mapping
ResultMissingKeys_DropsRaw(result) ==
    ExecutionResult(FALSE, T_REVIEW,
                    L_result_missing_keys_msg \o StrOfKeys(MissingKeys(result)),
                    StrOfDict(result.d), L_result_missing_keys, NoneVal,
                    StrVal(L_result_missing_keys))

\* excution.py:77-87
ResultMissingKeys(result) ==
    ExecutionResult(FALSE, T_REVIEW,
                    L_result_missing_keys_msg \o StrOfKeys(MissingKeys(result)),
                    StrOfDict(result.d), L_result_missing_keys, result,
                    StrVal(L_result_missing_keys))

\* next_state taken as the code spelled it
NormalizeNextState_NoUpper(result) ==
    LET v == DictGet(result.d, "next_state", StrVal(<<>>))
    IN StrOf(IF Truthy(v) THEN v ELSE StrVal(<<>>))

\* excution.py:89
NormalizeNextState(result) ==
    LET v == DictGet(result.d, "next_state", StrVal(<<>>))
    IN Upper(StrOf(IF Truthy(v) THEN v ELSE StrVal(<<>>)))

\* excution.py:89-103
SuccessResult(result) ==
    ExecutionResult(TRUE, NormalizeNextState(result),
                    StrOf(DictGet(result.d, "player_message", StrVal(<<>>))),
                    StrOf(DictGet(result.d, "observations", StrVal(<<>>))),
                    StrOf(DictGet(result.d, "next_step_hint", StrVal(<<>>))),
                    result, NoneVal)

\* excution.py:50-51: the exception that leaves execute, "none" if it returns
ExecuteRaises(code) ==
    IF code.exc # "none" /\ ~IsException(code.exc) THEN code.exc ELSE "none"

\* excution.py:63: globals_dict.get("__result__") after the run; the scope is
\* built anew by every call (excution.py:43-47)
ResultBinding(code) == IF code.result.t = "unbound" THEN NoneVal ELSE code.result

\* excution.py:41-103, the value execute returns when it returns
execute(code) ==
    IF code.exc # "none" THEN ExecutionErrorResult(code)
    ELSE LET result == ResultBinding(code)
         IN IF result.t # "dict" THEN MissingResult
            ELSE IF MissingKeys(result) # {} THEN ResultMissingKeys(result)
            ELSE SuccessResult(result)

\* The scope of a run. A script is described by the names it reads before
\* binding them, the names other than __result__ it binds, and the value it
\* binds __result__ to (Unbound if it never assigns it).
Script(reads, binds, result) == [reads |-> reads, binds |-> binds, result |-> result]

\* an object bound to a name
Obj(n) == [t |-> "object", of |-> n]

\* excution.py:43-47: globals_dict, a new dict holding __builtins__, logger
\* and a copy of the bindings of runtime_globals
FreshScope(runtime_globals) ==
    [n \in {"__builtins__", "logger"} \cup DOMAIN runtime_globals |->
        IF n \in DOMAIN runtime_globals THEN runtime_globals[n] ELSE Obj(n)]

\* excution.py:50: globals_dict after exec(code, globals_dict, globals_dict)
\* of a script that runs to its end
ScopeAfter(scope, script) ==
    [n \in DOMAIN scope \cup script.binds
           \cup (IF script.result = Unbound THEN {} ELSE {"__result__"}) |->
        IF n = "__result__" /\ script.result # Unbound THEN script.result
        ELSE IF n \in script.binds THEN Obj(n)
        ELSE scope[n]]

\* str(exc) of the NameError of a read of an unbound name (the name left out)
L_name_not_defined ==
    <<"n","a","m","e"," ","i","s"," ","n","o","t"," ","d","e","f","i","n","e","d">>

\* what exec() of the script does in `scope`: NameError on a read of a name
\* the scope does not bind, else the run ends and globals_dict.get("__result__")
\* (excution.py:63) finds what ScopeAfter binds the name to
ScopedCode(scope, script) ==
    IF ~(script.reads \subseteq DOMAIN scope)
    THEN Code(FALSE, FALSE, script.result # Unbound, "NameError",
              L_name_not_defined, Unbound)
    ELSE Code(FALSE, FALSE, script.result # Unbound, "none", <<>>,
              DictGet(ScopeAfter(scope, script), "__result__", Unbound))

\* an executor that runs the code in runtime_globals itself
RuntimeGlobalsAfter_Aliased(runtime_globals, script) ==
    IF script.reads \subseteq DOMAIN FreshScope(runtime_globals)
    THEN ScopeAfter(FreshScope(runtime_globals), script)
    ELSE FreshScope(runtime_globals)

\* excution.py:47-50: self.runtime_globals after a run; update() copied its
\* bindings, and the code's assignments go to globals_dict
RuntimeGlobalsAfter(runtime_globals, script) == runtime_globals

----------------------------------------------------------------------------
(* Blackboard (core/blackboard.py) *)

\* the empty mapping {} (a function with an empty domain)
EmptyMapping == <<>>

\* Blackboard() as the dataclass constructs it (blackboard.py:14-41).  The
\* class declares no runtime_globals field although BaseNode._build_executor
\* reads bb.runtime_globals (base.py:68): has_runtime_globals tells whether
\* the caller attached that attribute to the instance.
Blackboard(has_runtime_globals) ==
    [intel |-> EmptyMapping, events |-> <<>>, scratchpad |-> <<>>,
     plan |-> <<>>, current_step |-> EmptyMapping, step_index |-> 0,
     python_script |-> EmptyCode, action_result |-> EmptyMapping,
     review |-> EmptyMapping, commit |-> EmptyMapping,
     last_outcome |-> EmptyMapping, observation_requests |-> <<>>,
     db_buffer |-> <<>>, has_runtime_globals |-> has_runtime_globals]

\* blackboard.py:48-52; the text is kept as the pair it is formatted from
\* (a non-empty fragment of text)
build_scratchpad(result) ==
    [node |-> "ActionNode", observations |-> result.observations,
     next_step_hint |-> result.next_step_hint]

\* folding a result that also moves the plan cursor
update_from_result_AdvancesCursor(b, result) ==
    [b EXCEPT !.last_outcome = to_dict(result),
              !.scratchpad = Append(@, build_scratchpad(result)),
              !.action_result = to_dict(result),
              !.step_index = @ + 1]

\* folding a result into last_outcome and scratchpad only
update_from_result_OutcomeOnly(b, result) ==
    [b EXCEPT !.last_outcome = to_dict(result),
              !.scratchpad = Append(@, build_scratchpad(result))]

\* blackboard.py:43-46; scratchpad is the sequence of the fragments appended
\* so far, the text being their concatenation
update_from_result(b, result) ==
    [b EXCEPT !.last_outcome = to_dict(result),
              !.scratchpad = Append(@, build_scratchpad(result)),
              !.action_result = to_dict(result)]

----------------------------------------------------------------------------
(* FSM driver (core/fsm.py) *)

\* fsm.py:14-21: the members of FSMState, <<name, value>>
FSMStateMembers ==
    {<<T_OBSERVE, V_observe>>, <<T_PLAN, V_plan>>, <<T_ACTION_GEN, V_action_gen>>,
     <<T_REVIEW, V_review>>, <<T_COMMIT, V_commit>>, <<T_STOP, V_stop>>,
     <<T_DONE, V_done>>}

FSMStateNames == {m[1] : m \in FSMStateMembers}

\* the values FSMState(value) accepts
FSMState == {m[2] : m \in FSMStateMembers}

Min(a, b) == IF a <= b THEN a ELSE b

\* fsm.py:49
IsAdvance(nxt) == Lower(nxt) = T_RUN

\* transition without the validation of fsm.py:57
TransitionRaises_Never(nxt) == "none"

\* a validation that lets the empty token through
TransitionRaises_EmptyAccepted(nxt) ==
    IF nxt = <<>> THEN "none"
    ELSE IF ~IsAdvance(nxt) /\ Lower(nxt) \notin FSMState THEN "ValueError" ELSE "none"

\* fsm.py:57: FSMState(value) raises ValueError for a value of no member
TransitionRaises(nxt) ==
    IF ~IsAdvance(nxt) /\ Lower(nxt) \notin FSMState THEN "ValueError" ELSE "none"

\* fsm.py:49-50
TransitionStepIndex(b, nxt) ==
    IF IsAdvance(nxt) THEN b.step_index + 1 ELSE b.step_index

\* fsm.py:49-57
TransitionState(b, nxt) ==
    IF IsAdvance(nxt)
    THEN IF TransitionStepIndex(b, nxt) >= Len(b.plan) THEN V_done ELSE V_action_gen
    ELSE Lower(nxt)

\* fsm.py:60-64 (Python lists index from 0, TLA+ sequences from 1)
RecomputeCurrentStep(b) ==
    IF b.plan # <<>>
    THEN b.plan[Min(b.step_index, Len(b.plan) - 1) + 1]
    ELSE EmptyMapping

\* transition without the recomputation of fsm.py:59-63
TransitionBlackboard_NoRecompute(b, nxt) ==
    [b EXCEPT !.step_index = TransitionStepIndex(b, nxt)]

\* fsm.py:46-64: the Blackboard after transition(nxt) returns
TransitionBlackboard(b, nxt) ==
    LET b1 == [b EXCEPT !.step_index = TransitionStepIndex(b, nxt)]
    IN [b1 EXCEPT !.current_step = RecomputeCurrentStep(b1)]

\* write_db putting the record in front
write_db_Prepend(b, record) == [b EXCEPT !.db_buffer = <<record>> \o @]

\* fsm.py:66-69
write_db(b, record) == [b EXCEPT !.db_buffer = Append(@, record)]

----------------------------------------------------------------------------
(* BaseNode helpers (core/node/base.py) *)

\* FSMState.<NAME>.value; a name of no member raises AttributeError
HasMember(name) == name \in FSMStateNames
MemberValue(name) == (CHOOSE m \in FSMStateMembers : m[1] = name)[2]

\* A reply of the model adapter to one _complete call (base.py:40-44):
\* no model is bound (RuntimeError), the invocation fails, or a response
\* whose text is None or a string.
NoModel == [kind |-> "no_model"]
InvocationError == [kind |-> "invocation_error"]
NoneText == [kind |-> "text", isnone |-> TRUE]
\* a text: optional surrounding whitespace around a code string
Text(pad, code) == [kind |-> "text", isnone |-> FALSE, pad |-> pad, code |-> code]

\* base.py:41-44: the exception _complete raises, "none" if it returns
CompleteRaises(reply) ==
    CASE reply.kind = "no_model" -> "RuntimeError"
      [] reply.kind = "invocation_error" -> "ModelInvocationError"
      [] OTHER -> "none"

\* the text taken without strip(): whitespace alone is a script
StripText_NoStrip(reply) ==
    IF reply.isnone THEN EmptyCode
    ELSE IF reply.pad /\ reply.code.empty THEN [reply.code EXCEPT !.empty = FALSE]
    ELSE reply.code

\* (resp.text or "").strip()  (base.py:91, action_gen.py:42, review.py:50)
StripText(reply) == IF reply.isnone THEN EmptyCode ELSE reply.code

\* a test for the empty string that never finds it
IsEmptyStr_Never(code) == FALSE

\* `not script`: the empty string
IsEmptyStr(code) == code.empty

\* base.py:49-59: building the mapping evaluates FSMState.<NAME>.value for
\* each of its seven entries, and a name of no member raises AttributeError
MappedNames == {T_OBSERVE, T_PLAN, T_REVIEW, T_COMMIT, T_NEED_USER, T_STOP}

map_next_state_raises ==
    IF \E name \in MappedNames \cup {T_ACTION_GEN} : ~HasMember(name)
    THEN "AttributeError" ELSE "none"

\* base.py:49-63 (default_success = PLAN, default_error = REVIEW)
map_next_state(requested, error) ==
    LET normalized == Upper(OrEmpty(requested))
    IN IF normalized = T_RUN THEN MemberValue(T_ACTION_GEN)
       ELSE IF normalized \in MappedNames THEN MemberValue(normalized)
       ELSE IF error THEN MemberValue(T_REVIEW) ELSE MemberValue(T_PLAN)

\* base.py:66-68: bb.runtime_globals of a Blackboard without that attribute
BuildExecutorRaises(b) == IF b.has_runtime_globals THEN "none" ELSE "AttributeError"

\* base.py:70-81: the exception leaving _execute_code, "none" if it returns
ExecuteCodeRaises(b, code) ==
    IF BuildExecutorRaises(b) # "none" THEN BuildExecutorRaises(b)
    ELSE ExecuteRaises(code)

----------------------------------------------------------------------------
(* Outcome of one phase run: the Blackboard it leaves, the exception that  *)
(* left run ("none" if it returned), the token of the NodeOutput, how many *)
(* times the model and the Executor were invoked, and the ExecutionResult  *)
(* of the code run, if one was made.                                       *)

NoResult == [none |-> TRUE]
NoToken == <<"-">>

Outcome(b, raised, token, model_calls, executed, exec) ==
    [bb |-> b, raised |-> raised, token |-> token, model_calls |-> model_calls,
     executed |-> executed, exec |-> exec]

Returned(b, token, model_calls, executed, exec) ==
    Outcome(b, "none", token, model_calls, executed, exec)

\* a raise after the failed model invocation was tried a second time
Raised_AfterRetry(b, exc, model_calls, executed, exec) ==
    Outcome(b, exc, NoToken,
            IF exc = "ModelInvocationError" THEN model_calls + 1 ELSE model_calls,
            executed, exec)

Raised(b, exc, model_calls, executed, exec) ==
    Outcome(b, exc, NoToken, model_calls, executed, exec)

\* observe.py:42, action_gen.py:54, review.py:66: the token a node returns
\* after its code run, and the exception computing it raises
TokenOf(node, r) ==
    CASE node = "observe" -> MemberValue(T_PLAN)
      [] node = "action_gen" -> r.next_state
      [] node = "review" -> map_next_state(StrVal(r.next_state), r.error # NoneVal)

TokenRaises(node) == IF node = "review" THEN map_next_state_raises ELSE "none"

\* base.py:70-81 then blackboard.py:43-46, as action_gen.py:50-52,
\* review.py:63-64 and base.py:101-103 do it: the outcome for node `node` of
\* running `code` on Blackboard b (the model has been invoked once)
RunCode(b, code, node) ==
    IF BuildExecutorRaises(b) # "none"
    THEN Raised(b, BuildExecutorRaises(b), 1, FALSE, NoResult)
    ELSE IF ExecuteRaises(code) # "none"
    THEN Raised(b, ExecuteRaises(code), 1, TRUE, NoResult)
    ELSE LET r == execute(code)
             b1 == update_from_result(b, r)
         IN IF TokenRaises(node) # "none"
            THEN Raised(b1, TokenRaises(node), 1, TRUE, r)
            ELSE Returned(b1, TokenOf(node, r), 1, TRUE, r)

----------------------------------------------------------------------------
(* ObserveNode.run (core/node/observe.py:16-42) *)

\* an Observe that records its script as ActionGen does
ObserveRun_RecordsScript(b, reply) ==
    LET b1 == [b EXCEPT !.intel = EmptyMapping]
    IN IF CompleteRaises(reply) # "none"
       THEN Raised(b1, CompleteRaises(reply), 1, FALSE, NoResult)
       ELSE RunCode([b1 EXCEPT !.python_script = StripText(reply)],
                    StripText(reply), "observe")

ObserveRun(b, reply) ==
    LET b1 == [b EXCEPT !.intel = EmptyMapping]
    IN IF CompleteRaises(reply) # "none"
       THEN Raised(b1, CompleteRaises(reply), 1, FALSE, NoResult)
       ELSE RunCode(b1, StripText(reply), "observe")

----------------------------------------------------------------------------
(* ActionGenNode.run (core/node/action_gen.py:20-59) *)

ActionGenRun(b, reply) ==
    IF b.step_index >= Len(b.plan)
    THEN Raised(b, "IndexError", 0, FALSE, NoResult)
    ELSE IF b.plan[b.step_index + 1] = EmptyMapping
    THEN Returned(b, MemberValue(T_PLAN), 0, FALSE, NoResult)
    ELSE IF CompleteRaises(reply) # "none"
    THEN Raised(b, CompleteRaises(reply), 1, FALSE, NoResult)
    ELSE IF IsEmptyStr(StripText(reply))
    THEN Returned(b, MemberValue(T_PLAN), 1, FALSE, NoResult)
    ELSE RunCode([b EXCEPT !.python_script = StripText(reply)],
                 StripText(reply), "action_gen")

\* action_gen.py:26, 46, 55-59: the payload of the NodeOutput run returns
ActionGenPayload(b, reply) ==
    IF b.plan[b.step_index + 1] = EmptyMapping THEN EmptyMapping
    ELSE IF IsEmptyStr(StripText(reply)) THEN [error |-> "empty_python"]
    ELSE [python |-> StripText(reply),
          execution |-> to_dict(execute(StripText(reply)))]

----------------------------------------------------------------------------
(* ReviewNode.run (core/node/review.py:16-71) *)

\* review.py:21-29: one high-severity issue per denylisted token found and
\* one if the "__result__" marker is absent
local_precheck_issues(code) ==
    (IF code.banned THEN <<[severity |-> "high", kind |-> "safety"]>> ELSE <<>>)
    \o (IF ~code.marker THEN <<[severity |-> "high", kind |-> "missing"]>> ELSE <<>>)

\* a precheck that looks at the denylist only
local_precheck_ok_DenylistOnly(code) == ~code.banned

local_precheck_ok(code) ==
    \A i \in DOMAIN local_precheck_issues(code) :
        local_precheck_issues(code)[i].severity # "high"

ReviewRun(b, reply) ==
    IF IsEmptyStr(b.python_script)
    THEN Returned(b, MemberValue(T_ACTION_GEN), 0, FALSE, NoResult)
    ELSE IF CompleteRaises(reply) # "none"
    THEN Raised(b, CompleteRaises(reply), 1, FALSE, NoResult)
    ELSE IF IsEmptyStr(StripText(reply))
    THEN Returned(b, MemberValue(T_PLAN), 1, FALSE, NoResult)
    ELSE LET patched == StripText(reply)
             b1 == [b EXCEPT !.review = [issues |-> local_precheck_issues(patched),
                                         patched |-> TRUE]]
         IN IF ~local_precheck_ok(patched)
            THEN Returned(b1, MemberValue(T_PLAN), 1, FALSE, NoResult)
            ELSE RunCode([b1 EXCEPT !.python_script = patched], patched, "review")

\* review.py:38, 54, 60, 67-71: the payload of the NodeOutput run returns
ReviewPayload(b, reply) ==
    IF IsEmptyStr(b.python_script) THEN EmptyMapping
    ELSE IF IsEmptyStr(StripText(reply)) THEN [error |-> "empty_review_python"]
    ELSE IF ~local_precheck_ok(StripText(reply))
    THEN [review |-> [issues |-> local_precheck_issues(StripText(reply)),
                      patched |-> TRUE]]
    ELSE [python |-> StripText(reply),
          execution |-> to_dict(execute(StripText(reply)))]

----------------------------------------------------------------------------
(* PlanNode.run (core/node/plan.py:28-59) *)

\* A step record of a plan; an empty mapping is a step too
Step(n) == [desc |-> n]

\* What json.loads makes of the response text (plan.py:44-48,
\* commit.py:29-37): it raises (text that is no JSON, or None), or yields a
\* value that is not an object, or an object.
\* a response whose text json.loads parses to `parsed`
JsonText(parsed) == [kind |-> "text", parsed |-> parsed]

InvalidJson == [json |-> "invalid"]
JsonNonObject == [json |-> "non_object"]
PlanObject(plan, assumptions) ==
    [json |-> "object", plan |-> plan, assumptions |-> assumptions]

\* plan.py:48
PlanFallback == PlanObject(<<>>, <<>>)

\* plan.py:44-48
PlanData(parsed) == IF parsed.json = "invalid" THEN PlanFallback ELSE parsed

\* the writes of Plan without the reset of the cursor
PlanStore_KeepsCursor(b, data) ==
    [b EXCEPT !.plan = data.plan,
              !.current_step =
                  IF data.plan # <<>> THEN data.plan[1] ELSE EmptyMapping,
              !.scratchpad =
                  Append(@, [node |-> "PlanNode", assumptions |-> data.assumptions])]

\* the writes of Plan with scratchpad assigned instead of extended
PlanStore_RewritesScratchpad(b, data) ==
    [b EXCEPT !.plan = data.plan,
              !.step_index = 0,
              !.current_step =
                  IF data.plan # <<>> THEN data.plan[1] ELSE EmptyMapping,
              !.scratchpad = <<[node |-> "PlanNode", assumptions |-> data.assumptions]>>]

\* plan.py:50-56: the Blackboard after Plan stored the plan of `data`
PlanStore(b, data) ==
    [b EXCEPT !.plan = data.plan,
              !.step_index = 0,
              !.current_step =
                  IF data.plan # <<>> THEN data.plan[1] ELSE EmptyMapping,
              !.scratchpad =
                  Append(@, [node |-> "PlanNode", assumptions |-> data.assumptions])]

\* a Plan that stores its fallback plan before a failed invocation propagates
PlanRun_StoresFallbackOnFailure(b, reply) ==
    IF CompleteRaises(reply) # "none"
    THEN Raised(PlanStore(b, PlanFallback), CompleteRaises(reply), 1, FALSE, NoResult)
    ELSE LET data == PlanData(reply.parsed)
         IN IF data.json = "non_object"
            THEN Raised(b, "AttributeError", 1, FALSE, NoResult)
            ELSE Returned(PlanStore(b, data), MemberValue(T_ACTION_GEN),
                          1, FALSE, NoResult)

PlanRun(b, reply) ==
    IF CompleteRaises(reply) # "none"
    THEN Raised(b, CompleteRaises(reply), 1, FALSE, NoResult)
    ELSE LET data == PlanData(reply.parsed)
         IN IF data.json = "non_object"
            THEN Raised(b, "AttributeError", 1, FALSE, NoResult)
            ELSE Returned(PlanStore(b, data), MemberValue(T_ACTION_GEN),
                          1, FALSE, NoResult)

----------------------------------------------------------------------------
(* CommitNode.run (core/legacy/node/commit.py:17-47) *)

CommitObject(db_records, observe_force) ==
    [json |-> "object", db_records |-> db_records, player_message |-> "done",
     observe_force |-> observe_force]

\* commit.py:33-37
CommitFallback ==
    [json |-> "object", db_records |-> <<>>,
     player_message |-> "Commit failed: invalid model response.",
     observe_force |-> TRUE]

CommitData(parsed) == IF parsed.json = "invalid" THEN CommitFallback ELSE parsed

\* the truthy records written last first
WriteRecords_Reversed(b, records) ==
    LET kept == SelectSeq(records, LAMBDA r : r # EmptyMapping)
    IN [b EXCEPT !.db_buffer =
           @ \o [i \in 1..Len(kept) |-> kept[Len(kept) + 1 - i]]]

RECURSIVE WriteRecords(_, _)
\* commit.py:40-42: write_db for every truthy record, in order
WriteRecords(b, records) ==
    IF records = <<>> THEN b
    ELSE WriteRecords(IF Head(records) # EmptyMapping
                      THEN write_db(b, Head(records)) ELSE b,
                      Tail(records))

\* a token rule that always asks for observation
CommitToken_AlwaysObserve(data) == MemberValue(T_OBSERVE)

\* commit.py:45-46: OBSERVE if next_hint.observe_force is truthy, else PLAN
CommitToken(data) ==
    IF data.observe_force THEN MemberValue(T_OBSERVE) ELSE MemberValue(T_PLAN)

CommitRun(b, reply) ==
    IF CompleteRaises(reply) # "none"
    THEN Raised(b, CompleteRaises(reply), 1, FALSE, NoResult)
    ELSE LET data == CommitData(reply.parsed)
         IN IF data.json = "non_object"
            THEN Raised([b EXCEPT !.commit = data], "AttributeError", 1, FALSE, NoResult)
            ELSE Returned(WriteRecords([b EXCEPT !.commit = data], data.db_records),
                          CommitToken(data),
                          1, FALSE, NoResult)

----------------------------------------------------------------------------
(* NeedUserNode.run (core/node/need_user.py:41-66) *)

\* What the operator does at the prompt (need_user.py:45): ends the input, or
\* types a line, a note with optional surrounding whitespace
EndOfInput == [eof |-> TRUE]
Typed(pad, note) == [eof |-> FALSE, pad |-> pad, note |-> note]

\* the note taken as typed, surrounding whitespace kept
UserNote_Untrimmed(input) ==
    IF input.eof THEN ""
    ELSE IF input.pad THEN " " \o input.note \o " " ELSE input.note

\* need_user.py:44-48: "" at end of input, else the line stripped
UserNote(input) == IF input.eof THEN "" ELSE input.note

\* need_user.py:50-66, user_note being the stripped note
NeedUserRun(b, user_note) ==
    Returned(IF user_note # ""
             THEN [b EXCEPT !.events =
                       Append(@, [type |-> "need_user_ack", message |-> user_note])]
             ELSE b,
             MemberValue(T_PLAN), 0, FALSE, NoResult)

----------------------------------------------------------------------------
(* SimpleExecutor (core/executor.py) *)

\* executor.py:39-56: the context of a SimpleExecutor; history starts empty
ExecutorContext(max_history) == [history |-> <<>>, max_history |-> max_history]

\* executor.py:17-25: the result of SimpleExecutor.run; message is kept as
\* the pair it is formatted from
SimpleResult(success, message, code, error) ==
    [success |-> success, message |-> message, code |-> code, error |-> error]

\* What codegen.generate does (executor.py:94-107): it raises, or returns
\* code, a code string with optional surrounding whitespace
GenRaises(cls, msg) == [raises |-> cls, msg |-> msg]
Generated(pad, code) == [raises |-> "none", pad |-> pad, code |-> code]

\* executor.py:101-107
GenerationFailed(gen) ==
    SimpleResult(FALSE, [text |-> "generation failed", detail |-> gen.msg],
                 EmptyCode, StrVal(gen.msg))

\* executor.py:109-115
L_empty_code == <<"e","m","p","t","y","_","c","o","d","e">>
EmptyCodeResult ==
    SimpleResult(FALSE, [text |-> "empty code", detail |-> <<>>],
                 EmptyCode, StrVal(L_empty_code))

\* executor.py:181: bool(result.get("success", False)), the mapping's
\* success being a bool here
SimpleSuccess(d) == IF "success" \in DOMAIN d THEN d.success ELSE FALSE

\* executor.py:147-193: the result of _execute_code when it returns
Simple_execute_code(code) ==
    IF code.exc # "none"
    THEN SimpleResult(FALSE, [text |-> "execution failed", detail |-> code.msg],
                      code, StrVal(code.msg))
    ELSE IF ResultBinding(code).t # "dict"
    THEN SimpleResult(FALSE, [text |-> "missing result", detail |-> <<>>],
                      code, StrVal(L_missing_result))
    ELSE SimpleResult(SimpleSuccess(ResultBinding(code).d),
                      [text |-> "result", detail |-> <<>>], code, NoneVal)

\* executor.py:202-207
HistoryEntry(command, code, result) ==
    [command |-> command, code |-> code, success |-> result.success,
     message |-> result.message]

RECURSIVE TrimHistory(_, _)
\* executor.py:210-211: pop(0) while the history is longer than twice
\* max_history
TrimHistory(history, max_history) ==
    IF Len(history) > max_history * 2
    THEN TrimHistory(Tail(history), max_history)
    ELSE history

\* recording without the trimming loop
record_history_Untrimmed(ctx, command, code, result) ==
    [ctx EXCEPT !.history = Append(@, HistoryEntry(command, code, result))]

\* executor.py:195-211
record_history(ctx, command, code, result) ==
    [ctx EXCEPT !.history =
        TrimHistory(Append(@, HistoryEntry(command, code, result)), ctx.max_history)]

RunOutcome(ctx, raised, executed, result) ==
    [ctx |-> ctx, raised |-> raised, executed |-> executed, result |-> result]

\* executor.py:74-123: SimpleExecutor.run(command), codegen.generate doing
\* `gen`; _observe and _build_history_text (executor.py:87-91) read only
SimpleRun(ctx, command, gen) ==
    IF gen.raises # "none"
    THEN IF IsException(gen.raises)
         THEN RunOutcome(ctx, "none", FALSE, GenerationFailed(gen))
         ELSE RunOutcome(ctx, gen.raises, FALSE, NoResult)
    ELSE IF gen.code.empty
    THEN RunOutcome(ctx, "none", FALSE, EmptyCodeResult)
    ELSE IF ExecuteRaises(gen.code) # "none"
    THEN RunOutcome(ctx, ExecuteRaises(gen.code), TRUE, NoResult)
    ELSE RunOutcome(record_history(ctx, command, gen.code,
                                   Simple_execute_code(gen.code)),
                    "none", TRUE, Simple_execute_code(gen.code))

----------------------------------------------------------------------------
(* Bounds and input sets *)

MaxPlan == 2        \* longest plan
MaxScratch == 4     \* most fragments appended to scratchpad
MaxDb == 2          \* most records in db_buffer
MaxCalls == 2       \* most calls made on a prepared driver
MaxDriverDb == 1    \* most records written to the driver alone
MaxHistory == 2     \* largest max_history of an ExecutorContext

Steps == {Step("a"), Step("b"), EmptyMapping}

RECURSIVE SeqsUpTo(_, _)
SeqsUpTo(S, n) ==
    IF n = 0 THEN {<<>>}
    ELSE SeqsUpTo(S, n - 1) \cup
         {Append(s, x) : s \in {t \in SeqsUpTo(S, n - 1) : Len(t) = n - 1}, x \in S}

\* the Blackboards a caller of the driver prepares
Plans == SeqsUpTo(Steps, MaxPlan)

ExcMessages == {<<>>, M_boom, L_execution_error}

AllKeys == REQUIRED_KEYS \cup {"extra"}

NextStateValues ==
    {StrVal(T_RUN), StrVal(X_run), StrVal(T_OBSERVE), StrVal(T_PLAN), StrVal(X_Plan),
     StrVal(T_REVIEW), StrVal(T_COMMIT), StrVal(T_NEED_USER), StrVal(T_STOP),
     StrVal(T_DONE), StrVal(X_bogus), StrVal(<<>>), NoneVal}

FullDicts ==
    [next_state : NextStateValues, player_message : {StrVal(M_hi)},
     observations : {StrVal(M_seen)}, next_step_hint : {StrVal(M_hint)},
     extra : {NoneVal}]

Restrict(d, K) == [k \in K |-> d[k]]

\* the mappings generated code binds __result__ to
Dicts == {Restrict(d, K) : d \in FullDicts, K \in SUBSET AllKeys}

ResultValues == {Unbound, NoneVal, ListVal} \cup {DictVal(d) : d \in Dicts}

\* the code strings handed to the Executor directly
Codes ==
    {EmptyCode}
    \cup {Code(FALSE, FALSE, FALSE, e, msg, Unbound) :
            e \in ExcClasses, msg \in ExcMessages}
    \cup {Code(FALSE, FALSE, r # Unbound, "none", <<>>, r) : r \in ResultValues}

FullDict(next_state) ==
    [next_state |-> next_state, player_message |-> StrVal(M_hi),
     observations |-> StrVal(M_seen), next_step_hint |-> StrVal(M_hint)]

\* the code strings the model returns to the phases
LoopCodes ==
    {Code(FALSE, FALSE, TRUE, "ZeroDivisionError", M_boom, Unbound),
     Code(FALSE, FALSE, TRUE, "SystemExit", <<>>, Unbound),
     Code(FALSE, FALSE, FALSE, "none", <<>>, Unbound),
     Code(FALSE, TRUE, TRUE, "none", <<>>, DictVal(FullDict(StrVal(T_RUN)))),
     Code(FALSE, FALSE, TRUE, "none", <<>>, DictVal([next_state |-> StrVal(T_RUN)]))}
    \cup {Code(FALSE, FALSE, TRUE, "none", <<>>, DictVal(FullDict(v))) :
            v \in {StrVal(T_RUN), StrVal(X_run), StrVal(T_PLAN), StrVal(T_REVIEW),
                   StrVal(T_COMMIT), StrVal(T_NEED_USER), StrVal(T_STOP),
                   StrVal(X_bogus), NoneVal}}

\* the model's replies that carry a text
TextReplies == {NoneText, Text(TRUE, EmptyCode)} \cup {Text(FALSE, c) : c \in LoopCodes}

Replies == {NoModel, InvocationError} \cup TextReplies

LoopPlans == {<<>>, <<EmptyMapping>>} \cup {SubSeq(<<Step("a"), Step("b"), Step("c")>>, 1, n) : n \in 1..MaxPlan}

PlanTextReplies ==
    {JsonText(InvalidJson), JsonText(JsonNonObject)}
    \cup {JsonText(PlanObject(p, <<>>)) : p \in LoopPlans}

PlanReplies == {NoModel, InvocationError} \cup PlanTextReplies

CommitTextReplies ==
    {JsonText(InvalidJson), JsonText(JsonNonObject),
     JsonText(CommitObject(<<>>, FALSE)),
     JsonText(CommitObject(<<EmptyMapping, [type |-> "fact"]>>, TRUE))}

CommitReplies == {NoModel, InvocationError} \cup CommitTextReplies

TransitionTokens ==
    {T_RUN, X_run, X_rUn, T_OBSERVE, V_observe, T_PLAN, V_plan, X_Plan,
     T_ACTION_GEN, V_action_gen, T_REVIEW, V_review, T_COMMIT, V_commit,
     T_NEED_USER, X_need_user, T_STOP, V_stop, T_DONE, V_done, X_bogus, X_empty}

WithinBounds(b) ==
    /\ Len(b.scratchpad) <= MaxScratch
    /\ Len(b.db_buffer) <= MaxDb

----------------------------------------------------------------------------
(* The calls *)

NoCall == [op |-> "none"]

\* the FSM state whose node this is (legacy/factory.py:38-45, 82-89)
NodeState(node) ==
    CASE node = "observe" -> V_observe
      [] node = "plan" -> V_plan
      [] node = "action_gen" -> V_action_gen
      [] node = "review" -> V_review
      [] node = "commit" -> V_commit

\* One turn of the driving loop (spec 4.4): the node of the current state
\* runs with outcome `out`; if run returned, its token is fed to
\* fsm.transition (fsm.py:46-64); an exception leaves through the loop.
LoopStep(node, out) ==
    /\ state = NodeState(node)
    /\ WithinBounds(out.bb)
    /\ bb' = IF out.raised = "none" /\ TransitionRaises(out.token) = "none"
             THEN TransitionBlackboard(out.bb, out.token) ELSE out.bb
    /\ state' = IF out.raised = "none" /\ TransitionRaises(out.token) = "none"
                THEN TransitionState(out.bb, out.token) ELSE state
    /\ last' = [op |-> node, raised |-> out.raised, token |-> out.token,
                fed_raised |-> IF out.raised = "none"
                               THEN TransitionRaises(out.token) ELSE "none",
                model_calls |-> out.model_calls, executed |-> out.executed]

StepObserve == \E reply \in Replies : LoopStep("observe", ObserveRun(bb, reply))

StepPlan == \E reply \in PlanReplies : LoopStep("plan", PlanRun(bb, reply))

StepActionGen == \E reply \in Replies : LoopStep("action_gen", ActionGenRun(bb, reply))

StepReview == \E reply \in Replies : LoopStep("review", ReviewRun(bb, reply))

StepCommit == \E reply \in CommitReplies : LoopStep("commit", CommitRun(bb, reply))

\* fsm.transition(nxt) called with any token (fsm.py:46-64)
DoTransition ==
    \E nxt \in TransitionTokens :
        /\ state' = IF TransitionRaises(nxt) = "none"
                    THEN TransitionState(bb, nxt) ELSE state
        /\ bb' = IF TransitionRaises(nxt) = "none"
                 THEN TransitionBlackboard(bb, nxt) ELSE bb
        /\ last' = [op |-> "transition", raised |-> TransitionRaises(nxt),
                    token |-> nxt]

\* fsm.write_db(record) (fsm.py:66-69)
DoWriteDb ==
    \E record \in {[type |-> "fact"], EmptyMapping} :
        /\ Len(bb.db_buffer) < MaxDriverDb
        /\ bb' = write_db(bb, record)
        /\ last' = [op |-> "write_db", raised |-> "none", record |-> record]
        /\ UNCHANGED state

\* PythonActionExecutor(runtime_globals=...).execute(code) (excution.py:41-103)
DoExecute ==
    \E code \in Codes :
        /\ last' = [op |-> "execute", raised |-> ExecuteRaises(code), code |-> code,
                    result |-> IF ExecuteRaises(code) = "none" THEN execute(code)
                               ELSE NoResult]
        /\ UNCHANGED <<state, bb>>

\* the bindings a caller injects through Blackboard.runtime_globals
InjectedBindings ==
    {EmptyMapping, [api |-> Obj("api")], [api |-> Obj("api"), y |-> Obj("y")]}

Scripts ==
    {Script(reads, binds, result) :
        reads \in SUBSET {"api", "y"}, binds \in SUBSET {"y"},
        result \in {Unbound, ListVal, DictVal(FullDict(StrVal(T_RUN)))}}

\* the executor of base.py:66-68, PythonActionExecutor(runtime_globals=
\* bb.runtime_globals), running a script (excution.py:41-103); `bound` keeps
\* the names the runs so far have bound
DoExecuteScoped ==
    \E script \in Scripts :
        LET code == ScopedCode(FreshScope(bb.runtime_globals), script)
        IN /\ bb' = [bb EXCEPT !.runtime_globals = RuntimeGlobalsAfter(@, script)]
           /\ last' = [op |-> "execute", raised |-> "none", script |-> script,
                       result |-> execute(ScopedCode(FreshScope(bb.runtime_globals),
                                                     script)),
                       before |-> last.bound,
                       bound |-> last.bound \cup
                           (IF code.exc # "none" THEN {}
                            ELSE script.binds \cup
                                 (IF script.result = Unbound THEN {}
                                  ELSE {"__result__"}))]
           /\ UNCHANGED state

\* the player's commands
Commands == {"deploy", "attack"}

\* what the code generation does: it raises (an Exception, or SystemExit),
\* or returns the empty string, blanks, code that succeeds, code that raises
\* (an Exception, or SystemExit)
Generations ==
    {GenRaises("ZeroDivisionError", M_boom), GenRaises("SystemExit", <<>>),
     Generated(FALSE, EmptyCode), Generated(TRUE, EmptyCode),
     Generated(FALSE, Code(FALSE, FALSE, TRUE, "none", <<>>, DictVal([success |-> TRUE]))),
     Generated(FALSE, Code(FALSE, FALSE, FALSE, "ZeroDivisionError", M_boom, Unbound)),
     Generated(FALSE, Code(FALSE, FALSE, FALSE, "SystemExit", <<>>, Unbound))}

\* SimpleExecutor(codegen, ctx).run(command) (executor.py:74-123)
DoRun ==
    \E command \in Commands, gen \in Generations :
        LET out == SimpleRun(bb, command, gen)
        IN /\ bb' = out.ctx
           /\ last' = [op |-> "run", command |-> command, gen |-> gen,
                       raised |-> out.raised, executed |-> out.executed,
                       result |-> out.result]
           /\ UNCHANGED state

\* the code strings the model returns to a phase called on its own: one
\* that succeeds, one that raises, one whose result lacks keys, one with a
\* denylisted token, one without the "__result__" marker
PhaseCodes ==
    {Code(FALSE, FALSE, TRUE, "none", <<>>, DictVal(FullDict(StrVal(T_RUN)))),
     Code(FALSE, FALSE, TRUE, "ZeroDivisionError", M_boom, Unbound),
     Code(FALSE, FALSE, TRUE, "none", <<>>, DictVal([next_state |-> StrVal(T_RUN)])),
     Code(FALSE, TRUE, TRUE, "none", <<>>, DictVal(FullDict(StrVal(T_RUN)))),
     Code(FALSE, FALSE, FALSE, "none", <<>>, Unbound)}

PhaseReplies ==
    {NoModel, InvocationError, NoneText, Text(FALSE, EmptyCode), Text(TRUE, EmptyCode)}
    \cup {Text(FALSE, c) : c \in PhaseCodes}

PhasePlanReplies ==
    {NoModel, InvocationError, JsonText(InvalidJson), JsonText(JsonNonObject)}
    \cup {JsonText(PlanObject(pl, <<>>)) : pl \in LoopPlans \ {<<>>}}

PhaseCommitReplies ==
    {NoModel, InvocationError, JsonText(InvalidJson), JsonText(JsonNonObject),
     JsonText(CommitObject(<<EmptyMapping, [type |-> "fact"], [type |-> "note"]>>, TRUE)),
     JsonText(CommitObject(<<>>, FALSE))}

PhaseTokens == {T_RUN, T_PLAN, V_action_gen, T_NEED_USER, T_DONE, X_bogus}

NoCallYet == [op |-> "none", n |-> 0]

\* node.run(fsm) called on the driver in any state (base.py:37-38), the
\* model answering with `reply`, with outcome `out`
PhaseCall(node, reply, out) ==
    /\ last.n < MaxCalls
    /\ WithinBounds(out.bb)
    /\ bb' = out.bb
    /\ last' = [op |-> node, reply |-> reply, raised |-> out.raised,
                token |-> out.token, model_calls |-> out.model_calls,
                executed |-> out.executed, pre_step_index |-> bb.step_index,
                n |-> last.n + 1]
    /\ UNCHANGED state

RunObserve == \E reply \in PhaseReplies : PhaseCall("observe", reply, ObserveRun(bb, reply))

RunPlan == \E reply \in PhasePlanReplies : PhaseCall("plan", reply, PlanRun(bb, reply))

RunActionGen == \E reply \in PhaseReplies : PhaseCall("action_gen", reply, ActionGenRun(bb, reply))

RunReview == \E reply \in PhaseReplies : PhaseCall("review", reply, ReviewRun(bb, reply))

RunCommit == \E reply \in PhaseCommitReplies : PhaseCall("commit", reply, CommitRun(bb, reply))

\* the operator's inputs: end of input, an empty line, blanks, a note
OperatorInputs == {EndOfInput, Typed(FALSE, ""), Typed(TRUE, ""), Typed(TRUE, "ok")}

RunNeedUser == \E input \in OperatorInputs : PhaseCall("need_user", input, NeedUserRun(bb, UserNote(input)))

\* fsm.transition(nxt) between phase runs (fsm.py:46-64)
CallTransition ==
    \E nxt \in PhaseTokens :
        /\ last.n < MaxCalls
        /\ state' = IF TransitionRaises(nxt) = "none"
                    THEN TransitionState(bb, nxt) ELSE state
        /\ bb' = IF TransitionRaises(nxt) = "none"
                 THEN TransitionBlackboard(bb, nxt) ELSE bb
        /\ last' = [op |-> "transition", reply |-> nxt,
                    raised |-> TransitionRaises(nxt), token |-> nxt,
                    model_calls |-> 0, executed |-> FALSE,
                    pre_step_index |-> bb.step_index, n |-> last.n + 1]

\* fsm.write_db(record) between phase runs (fsm.py:66-69)
CallWriteDb ==
    \E record \in {[type |-> "fact"], [type |-> "note"]} :
        /\ last.n < MaxCalls
        /\ Len(bb.db_buffer) < MaxDb
        /\ bb' = write_db(bb, record)
        /\ last' = [op |-> "write_db", reply |-> record, raised |-> "none",
                    token |-> NoToken, model_calls |-> 0, executed |-> FALSE,
                    pre_step_index |-> bb.step_index, n |-> last.n + 1]
        /\ UNCHANGED state

\* every spelling of text t in upper- and lower-case letters
CaseVariants(t) ==
    {[i \in 1..Len(t) |-> IF i \in S THEN UpperChar(t[i]) ELSE LowerChar(t[i])] :
        S \in SUBSET (1..Len(t))}

\* the texts a caller hands to _map_next_state: None, "", the state tokens in
\* upper and lower case, every spelling of the short ones, unknown text
RequestedTexts ==
    {NoneVal}
    \cup {StrVal(t) : t \in {X_empty, X_bogus, M_hi}}
    \cup {StrVal(t) : t \in {T_OBSERVE, V_observe, T_ACTION_GEN, V_action_gen,
                              T_REVIEW, V_review, T_COMMIT, V_commit,
                              T_NEED_USER, X_need_user}}
    \cup {StrVal(t) : t \in CaseVariants(T_RUN) \cup CaseVariants(T_PLAN)
                              \cup CaseVariants(T_STOP) \cup CaseVariants(T_DONE)}

\* node._map_next_state(requested, error=error) (base.py:49-63)
DoMapNextState ==
    \E requested \in RequestedTexts, error \in BOOLEAN :
        /\ last' = [op |-> "map_next_state", raised |-> map_next_state_raises,
                    requested |-> requested, error |-> error,
                    result |-> IF map_next_state_raises = "none"
                               THEN map_next_state(requested, error) ELSE NoToken]
        /\ UNCHANGED <<state, bb>>

----------------------------------------------------------------------------
(* Specifications *)

\* FSM(ctx=FSMContext(goal, Blackboard())) (fsm.py:41-44); the caller may
\* have attached runtime_globals to the Blackboard
Init ==
    /\ state = V_observe
    /\ bb \in {Blackboard(h) : h \in BOOLEAN}
    /\ last = NoCall

\* the driving loop
Next ==
    \/ StepObserve
    \/ StepPlan
    \/ StepActionGen
    \/ StepReview
    \/ StepCommit

Spec == Init /\ [][Next]_vars

\* The driver alone, on a Blackboard its caller prepared:
\* FSM(ctx=FSMContext(goal, Blackboard(plan=..., step_index=..., current_step=...)))
InitFSM ==
    /\ state = V_observe
    /\ \E p \in Plans, i \in 0..MaxPlan, s \in Steps :
         bb = [Blackboard(FALSE) EXCEPT !.plan = p, !.step_index = i, !.current_step = s]
    /\ last = NoCall

NextFSM ==
    \/ DoTransition
    \/ DoWriteDb

SpecFSM == InitFSM /\ [][NextFSM]_vars

\* The Executor alone
InitExec ==
    /\ state = V_observe
    /\ bb = Blackboard(TRUE)
    /\ last = NoCall

NextExec == DoExecute

SpecExec == InitExec /\ [][NextExec]_vars

\* the queues of observation requests a caller prepares
\* (Blackboard(observation_requests=[...]))
PreparedRequests == {<<>>, <<[request |-> "scan"]>>}

\* Phase runs, transition and write_db called in any order on a driver whose
\* caller prepared the plan and the cursor of the Blackboard
InitPhases ==
    /\ state = V_observe
    /\ \E h \in BOOLEAN, pl \in LoopPlans, i \in 0..MaxPlan, q \in PreparedRequests :
         bb = [Blackboard(h) EXCEPT !.plan = pl, !.step_index = i,
                                    !.observation_requests = q,
                                    !.current_step = RecomputeCurrentStep(
                                        [plan |-> pl, step_index |-> i])]
    /\ last = NoCallYet

NextPhases ==
    \/ RunObserve
    \/ RunPlan
    \/ RunActionGen
    \/ RunReview
    \/ RunCommit
    \/ RunNeedUser
    \/ CallTransition
    \/ CallWriteDb

SpecPhases == InitPhases /\ [][NextPhases]_vars

\* The Executor run again and again on the injected bindings of one
\* Blackboard
InitScope ==
    /\ state = V_observe
    /\ \E rg \in InjectedBindings : bb = [runtime_globals |-> rg]
    /\ last = [op |-> "none", bound |-> {}]

NextScope == DoExecuteScoped

SpecScope == InitScope /\ [][NextScope]_vars

\* A SimpleExecutor on a fresh context, max_history chosen by the caller
InitSimple ==
    /\ state = V_observe
    /\ \E max_history \in 0..MaxHistory : bb = ExecutorContext(max_history)
    /\ last = NoCall

NextSimple == DoRun

SpecSimple == InitSimple /\ [][NextSimple]_vars

\* _map_next_state alone, called on a node of a fresh driver
InitMap ==
    /\ state = V_observe
    /\ bb = Blackboard(TRUE)
    /\ last = NoCall

NextMap == DoMapNextState

SpecMap == InitMap /\ [][NextMap]_vars

----------------------------------------------------------------------------
(* Properties *)

\* the eight state tokens of the phase-token state space
StateTokens ==
    {T_OBSERVE, T_PLAN, T_ACTION_GEN, T_REVIEW, T_COMMIT, T_NEED_USER, T_STOP, T_DONE}

\* the driver state a token names: the member of that name
DriverState(token) == Lower(token)

LoopNodes == {"observe", "plan", "action_gen", "review", "commit"}

\* exceptions of a failed model invocation (no text response)
ModelFailures == {"RuntimeError", "ModelInvocationError"}

\* C1: whenever the node of the current state has run on a text response of
\* the model (with the runtime bindings attached, and generated code that
\* does not exit the interpreter), the run returned, transition accepted its
\* token, and the driver is in one of the eight states.
C1_LoopStepNeverRaises ==
    (/\ last.op \in LoopNodes
     /\ bb.has_runtime_globals
     /\ last.raised \notin ModelFailures \cup {"SystemExit"})
        => /\ last.raised = "none"
           /\ last.fed_raised = "none"
           /\ state \in {DriverState(t) : t \in StateTokens}

\* C2: transition("RUN") on a plan of length n >= 1 with step_index = n-1
\* returns and leaves the driver in DONE.
C2_PlanExhaustion ==
    [][(/\ last'.op = "transition"
        /\ last'.token = T_RUN
        /\ Len(bb.plan) >= 1
        /\ bb.step_index = Len(bb.plan) - 1)
          => (last'.raised = "none" /\ state' = DriverState(T_DONE))]_vars

\* C3: transition("RUN") with step_index + 1 < len(plan) returns, increases
\* step_index by exactly one, sets the state to ACTION_GEN and keeps the plan.
C3_AdvanceToken ==
    [][(/\ last'.op = "transition"
        /\ last'.token = T_RUN
        /\ bb.step_index + 1 < Len(bb.plan))
          => /\ last'.raised = "none"
             /\ bb'.step_index = bb.step_index + 1
             /\ state' = DriverState(T_ACTION_GEN)
             /\ bb'.plan = bb.plan]_vars

\* C4: after every transition call that returns, current_step is
\* plan[min(step_index, len(plan)-1)] for a non-empty plan and {} for an
\* empty one.
C4_CurrentStepConsistent ==
    (last.op = "transition" /\ last.raised = "none")
        => IF Len(bb.plan) > 0
           THEN \E idx \in 0..(Len(bb.plan) - 1) :
                    /\ idx = IF bb.step_index < Len(bb.plan) - 1
                             THEN bb.step_index ELSE Len(bb.plan) - 1
                    /\ bb.current_step = bb.plan[idx + 1]
           ELSE bb.current_step = EmptyMapping

\* a direct-token transition returned on an exhausted two-step plan whose
\* current_step now is the last step
C4_Witness ==
    /\ last.op = "transition"
    /\ last.raised = "none"
    /\ last.token = T_PLAN
    /\ Len(bb.plan) = 2
    /\ bb.step_index = 2
    /\ bb.plan[1] # bb.plan[2]
    /\ bb.current_step = bb.plan[2]

\* C5: when ActionGen ran code that succeeded with next_state RUN, feeding
\* its token to transition returns, increases step_index by one and leaves
\* the driver in ACTION_GEN, or in DONE if the plan is exhausted.
C5_RunAdvancesCursor ==
    [][(/\ last'.op = "action_gen"
        /\ last'.raised = "none"
        /\ last'.executed
        /\ bb'.last_outcome.success
        /\ bb'.last_outcome.next_state = T_RUN)
          => /\ last'.fed_raised = "none"
             /\ bb'.step_index = bb.step_index + 1
             /\ state' = IF bb'.step_index >= Len(bb'.plan)
                         THEN DriverState(T_DONE) ELSE DriverState(T_ACTION_GEN)]_vars

\* C6: transition(t), t one of the eight state tokens in any letter case,
\* returns, sets the state to t and leaves step_index and plan unchanged.
C6_DirectToken ==
    [][(last'.op = "transition" /\ Upper(last'.token) \in StateTokens)
          => /\ last'.raised = "none"
             /\ state' = DriverState(last'.token)
             /\ bb'.step_index = bb.step_index
             /\ bb'.plan = bb.plan]_vars

\* C7: every code string whose execution raises makes
\* execute return success=False, error="execution_error", next_state="REVIEW".
C7_ExecutionError ==
    (last.op = "execute" /\ last.code.exc # "none")
        => /\ last.raised = "none"
           /\ last.result.success = FALSE
           /\ last.result.error = StrVal(L_execution_error)
           /\ last.result.next_state = T_REVIEW

ErrorTaxonomy == {L_execution_error, L_missing_result, L_result_missing_keys}

\* success=True implies error null and all four required keys in raw_result
SuccessShape(r) ==
    r.success => /\ r.error = NoneVal
                 /\ r.raw_result.t = "dict"
                 /\ REQUIRED_KEYS \subseteq DOMAIN r.raw_result.d

\* C8: every result execute returns has the success shape, and with
\* success=False its error is one of the fixed taxonomy strings.
C8_ResultShape ==
    (last.op = "execute" /\ last.raised = "none")
        => /\ SuccessShape(last.result)
           /\ ~last.result.success =>
                  \E e \in ErrorTaxonomy : last.result.error = StrVal(e)

\* C9: code that runs to its end and leaves __result__ unbound, or bound to
\* a value that is no mapping, yields success=False, error="missing_result",
\* next_state="REVIEW", raw_result null.
C9_MissingResult ==
    (last.op = "execute" /\ last.code.exc = "none" /\ last.code.result.t # "dict")
        => /\ last.raised = "none"
           /\ last.result.success = FALSE
           /\ last.result.error = StrVal(L_missing_result)
           /\ last.result.next_state = T_REVIEW
           /\ last.result.raw_result = NoneVal

\* execute returned for code that binds __result__ to a list
C9_Witness ==
    /\ last.op = "execute"
    /\ last.code.exc = "none"
    /\ last.code.result = ListVal
    /\ last.raised = "none"
    /\ last.result.next_step_hint = L_missing_result

\* C10: code that binds __result__ to a mapping lacking a required key
\* yields success=False, error="result_missing_keys", next_state="REVIEW"
\* and raw_result equal to the mapping as assigned.
C10_ResultMissingKeys ==
    (/\ last.op = "execute"
     /\ last.code.exc = "none"
     /\ last.code.result.t = "dict"
     /\ ~(REQUIRED_KEYS \subseteq DOMAIN last.code.result.d))
        => /\ last.raised = "none"
           /\ last.result.success = FALSE
           /\ last.result.error = StrVal(L_result_missing_keys)
           /\ last.result.next_state = T_REVIEW
           /\ last.result.raw_result = last.code.result

\* execute returned for __result__ = {"next_state": "RUN"}
C10_Witness ==
    /\ last.op = "execute"
    /\ last.code.result = DictVal([next_state |-> StrVal(T_RUN)])
    /\ last.raised = "none"
    /\ last.result.raw_result = DictVal([next_state |-> StrVal(T_RUN)])
    /\ last.result.error = StrVal(L_result_missing_keys)

\* C11: whenever ActionGen or Review has executed code and the Executor
\* returned a failed result, the run returned, transition accepted its token
\* and the driver is in REVIEW.
C11_FailureRoutedToReview ==
    (/\ last.op \in {"action_gen", "review"}
     /\ last.executed
     /\ last.raised # "SystemExit"
     /\ bb.last_outcome.success = FALSE)
        => /\ last.raised = "none"
           /\ last.fed_raised = "none"
           /\ state = DriverState(T_REVIEW)

\* C14: whenever Observe has run on a text response of the model, the run
\* returned the PLAN token, transition accepted it and the driver is in PLAN.
C14_ObserveNeverHalts ==
    (last.op = "observe" /\ last.raised \notin ModelFailures)
        => /\ last.raised = "none"
           /\ Upper(last.token) = T_PLAN
           /\ last.fed_raised = "none"
           /\ state = DriverState(T_PLAN)

\* C20: ActionGen run with an empty current step (an empty plan, after a
\* malformed plan response, included) returns the PLAN token, having invoked
\* neither the model nor the Executor.
C20_EmptyStepBouncesToPlan ==
    [][(last'.op = "action_gen" /\ bb.current_step = EmptyMapping)
          => /\ last'.raised = "none"
             /\ Upper(last'.token) = T_PLAN
             /\ last'.model_calls = 0
             /\ ~last'.executed]_vars

\* C12: _map_next_state called with one of the eight state tokens, for
\* either value of error, returns that token.
C12_MapIdempotent ==
    (/\ last.op = "map_next_state"
     /\ last.requested.t = "str"
     /\ last.requested.s \in StateTokens)
        => /\ last.raised = "none"
           /\ Upper(last.result) = last.requested.s

\* C13: _map_next_state returns a state token for every text and for None,
\* and for text it does not recognize the default token: REVIEW when error
\* is true, PLAN when it is false.
C13_MapTotal ==
    last.op = "map_next_state"
        => /\ last.raised = "none"
           /\ Upper(last.result) \in StateTokens
           /\ Upper(OrEmpty(last.requested)) \notin StateTokens \cup {T_RUN}
                 => last.result = DriverState(IF last.error THEN T_REVIEW ELSE T_PLAN)

\* C18: the driver's state is OBSERVE before any call and one of the eight
\* state tokens after every sequence of transition calls.
C18_StateIsToken ==
    /\ last.op = "none" => state = DriverState(T_OBSERVE)
    /\ state \in {DriverState(t) : t \in StateTokens}

\* a transition call returned and left the driver in DONE
C18_Witness ==
    /\ last.op = "transition"
    /\ last.raised = "none"
    /\ last.token = T_DONE
    /\ state = DriverState(T_DONE)

\* the phases
PhaseNodes == {"observe", "plan", "action_gen", "review", "commit", "need_user"}

\* the patch of a Review run: the stripped text of the model's reply
Patch(reply) == StripText(reply)

\* C15: when the model returns to Review a non-empty patch that contains a
\* denylisted token or lacks the "__result__" marker, Review returns PLAN,
\* the Executor is not invoked, review.issues has a high-severity entry, and
\* python_script, last_outcome and action_result are unchanged.
C15_ReviewPrecheck ==
    [][(/\ last'.op = "review"
        /\ last'.model_calls = 1
        /\ last'.reply.kind = "text"
        /\ ~IsEmptyStr(Patch(last'.reply))
        /\ (Patch(last'.reply).banned \/ ~Patch(last'.reply).marker))
          => /\ last'.raised = "none"
             /\ Upper(last'.token) = T_PLAN
             /\ ~last'.executed
             /\ \E i \in DOMAIN bb'.review.issues :
                    bb'.review.issues[i].severity = "high"
             /\ bb'.python_script = bb.python_script
             /\ bb'.last_outcome = bb.last_outcome
             /\ bb'.action_result = bb.action_result]_vars

\* Review returned PLAN for a patch with a denylisted token, the script and
\* the outcome of the earlier ActionGen run being kept
C15_Witness ==
    /\ last.op = "review"
    /\ last.model_calls = 1
    /\ last.reply.kind = "text"
    /\ ~IsEmptyStr(Patch(last.reply))
    /\ Patch(last.reply).banned
    /\ last.raised = "none"
    /\ ~last.executed
    /\ bb.python_script # Patch(last.reply)
    /\ bb.last_outcome # EmptyMapping
    /\ Len(bb.review.issues) = 1

\* C16: no phase run increases step_index, and a phase run that changes it
\* is a Plan run setting it to 0.
C16_PhasesNeverAdvance ==
    [][last'.op \in PhaseNodes
          => /\ bb'.step_index <= bb.step_index
             /\ bb'.step_index # bb.step_index
                   => (last'.op = "plan" /\ bb'.step_index = 0)]_vars

\* ActionGen executed code with the cursor on the second step and left the
\* cursor there
C16_Witness ==
    /\ last.op = "action_gen"
    /\ last.executed
    /\ last.raised = "none"
    /\ last.pre_step_index = 1
    /\ bb.step_index = 1

\* C17: step_index does not decrease in any call but a Plan run, and it is 0
\* when a Plan run has returned.
C17_CursorMonotone ==
    [][/\ last'.op # "plan" => bb'.step_index >= bb.step_index
       /\ (last'.op = "plan" /\ last'.raised = "none") => bb'.step_index = 0]_vars

\* a Plan run returned having reset a cursor that stood beyond 0
C17_Witness ==
    /\ last.op = "plan"
    /\ last.raised = "none"
    /\ last.pre_step_index > 0
    /\ bb.step_index = 0
    /\ bb.plan # <<>>

\* s is a prefix of t
IsPrefix(s, t) == Len(s) <= Len(t) /\ SubSeq(t, 1, Len(s)) = s

\* a record that is not the empty mapping
IsTruthyRecord(r) == r # EmptyMapping

\* C19: in every call the old db_buffer is a prefix of the new one; only
\* write_db, called directly or by Commit for its records, extends it, and
\* write_db appends exactly the record given.
C19_DbBufferAppendOnly ==
    [][/\ IsPrefix(bb.db_buffer, bb'.db_buffer)
       /\ bb'.db_buffer # bb.db_buffer => last'.op \in {"write_db", "commit"}
       /\ last'.op = "write_db" => bb'.db_buffer = Append(bb.db_buffer, last'.reply)
       /\ (last'.op = "commit" /\ last'.raised = "none")
             => bb'.db_buffer = bb.db_buffer \o
                    SelectSeq(CommitData(last'.reply.parsed).db_records,
                              IsTruthyRecord)]_vars

\* write_db appended a second record behind a different first one
C19_Witness ==
    /\ last.op = "write_db"
    /\ Len(bb.db_buffer) = 2
    /\ bb.db_buffer[1] # bb.db_buffer[2]
    /\ bb.db_buffer[2] = last.reply

\* C21: no run of ActionGen in the driving loop indexes plan out of range.
C21_ActionGenIndexInRange ==
    last.op = "action_gen" => last.raised # "IndexError"

\* C24: when Review has executed a patch whose result has next_state RUN,
\* run returns the ACTION_GEN token, transition accepts it, the driver is in
\* ACTION_GEN and step_index is unchanged.
C24_ReviewMapsRun ==
    [][(/\ last'.op = "review"
        /\ last'.executed
        /\ last'.raised # "SystemExit"
        /\ bb'.last_outcome.next_state = T_RUN)
          => /\ last'.raised = "none"
             /\ last'.token = DriverState(T_ACTION_GEN)
             /\ last'.fed_raised = "none"
             /\ state' = DriverState(T_ACTION_GEN)
             /\ bb'.step_index = bb.step_index]_vars

\* the plan of a reply's text: that of the parsed object, the empty plan for
\* text that does not parse to a plan object
ReplyPlan(reply) ==
    IF reply.parsed.json = "object" THEN reply.parsed.plan ELSE <<>>

\* C28: a Plan run on a text response of the model returns the ACTION_GEN
\* token, with plan replaced by the response's plan (empty when the text
\* does not parse to a plan object), step_index 0, current_step plan[0] or
\* {}, and one fragment appended to scratchpad.
C28_PlanRun ==
    [][(last'.op = "plan" /\ last'.reply.kind = "text")
          => /\ last'.raised = "none"
             /\ last'.token = DriverState(T_ACTION_GEN)
             /\ bb'.plan = ReplyPlan(last'.reply)
             /\ bb'.step_index = 0
             /\ bb'.current_step = IF bb'.plan = <<>> THEN EmptyMapping ELSE bb'.plan[1]
             /\ Len(bb'.scratchpad) = Len(bb.scratchpad) + 1]_vars

\* C30: a Commit run on text that does not parse to a commit object returns
\* the OBSERVE token of the fallback record, with commit set to that record
\* and db_buffer unchanged.
C30_CommitFallback ==
    [][(/\ last'.op = "commit"
        /\ last'.reply.kind = "text"
        /\ last'.reply.parsed.json # "object")
          => /\ last'.raised = "none"
             /\ bb'.commit = CommitFallback
             /\ bb'.db_buffer = bb.db_buffer
             /\ last'.token = DriverState(T_OBSERVE)]_vars

\* a reply whose text is None, empty or whitespace alone
IsBlankReply(reply) ==
    reply.kind = "text" /\ (reply.isnone \/ reply.code.empty)

\* C22: when the model returns empty or whitespace-only text to ActionGen,
\* run returns the PLAN token with the payload {"error": "empty_python"}, the
\* Executor is not invoked, and python_script, action_result, last_outcome
\* and scratchpad are unchanged.
C22_ActionGenEmptyText ==
    [][(/\ last'.op = "action_gen"
        /\ last'.model_calls = 1
        /\ IsBlankReply(last'.reply))
          => /\ last'.raised = "none"
             /\ last'.token = DriverState(T_PLAN)
             /\ ActionGenPayload(bb, last'.reply) = [error |-> "empty_python"]
             /\ ~last'.executed
             /\ bb'.python_script = bb.python_script
             /\ bb'.action_result = bb.action_result
             /\ bb'.last_outcome = bb.last_outcome
             /\ bb'.scratchpad = bb.scratchpad]_vars

\* ActionGen has returned on whitespace-only text, with a script of an
\* earlier run still on the Blackboard
C22_Witness ==
    /\ last.op = "action_gen"
    /\ last.model_calls = 1
    /\ last.reply = Text(TRUE, EmptyCode)
    /\ last.token = DriverState(T_PLAN)
    /\ ~bb.python_script.empty
    /\ bb.action_result # EmptyMapping

\* C23: Review with an empty python_script returns the ACTION_GEN token
\* without invoking the model; Review whose model text is empty returns the
\* PLAN token with the payload {"error": "empty_review_python"}; in both
\* cases review, python_script, action_result and last_outcome are unchanged
\* and the Executor is not invoked.
C23_ReviewEarlyReturns ==
    [][(last'.op = "review" /\ (bb.python_script.empty \/ IsBlankReply(last'.reply)))
          => /\ last'.raised = "none"
             /\ ~last'.executed
             /\ bb'.review = bb.review
             /\ bb'.python_script = bb.python_script
             /\ bb'.action_result = bb.action_result
             /\ bb'.last_outcome = bb.last_outcome
             /\ IF bb.python_script.empty
                THEN /\ last'.token = DriverState(T_ACTION_GEN)
                     /\ last'.model_calls = 0
                ELSE /\ last'.token = DriverState(T_PLAN)
                     /\ last'.model_calls = 1
                     /\ ReviewPayload(bb, last'.reply)
                            = [error |-> "empty_review_python"]]_vars

\* Review has returned PLAN on an empty model text, after a code run that
\* left its script and result on the Blackboard
C23_Witness ==
    /\ last.op = "review"
    /\ last.model_calls = 1
    /\ IsBlankReply(last.reply)
    /\ last.token = DriverState(T_PLAN)
    /\ ~bb.python_script.empty
    /\ bb.action_result # EmptyMapping

\* C29: the token Commit returns is OBSERVE when the parsed response (the
\* fallback record for text that is not JSON) has a truthy
\* next_hint.observe_force and PLAN otherwise; no Commit run changes plan,
\* step_index or python_script.
C29_CommitToken ==
    [][last'.op = "commit"
          => /\ bb'.plan = bb.plan
             /\ bb'.step_index = bb.step_index
             /\ bb'.python_script = bb.python_script
             /\ last'.raised = "none"
                  => /\ last'.token \in {DriverState(T_OBSERVE), DriverState(T_PLAN)}
                     /\ last'.token = DriverState(T_OBSERVE)
                          <=> CommitData(last'.reply.parsed).observe_force]_vars

\* Commit has returned PLAN for a response that does not force observation,
\* on a Blackboard with a plan and a cursor past its first step
C29_Witness ==
    /\ last.op = "commit"
    /\ last.raised = "none"
    /\ last.token = DriverState(T_PLAN)
    /\ bb.plan # <<>>
    /\ bb.step_index > 0

CodeNodes == {"observe", "action_gen", "review"}

\* C27: every code run of Observe, ActionGen or Review that yields an
\* Execution Result leaves last_outcome and action_result equal to the
\* result's mapping and appends the result's trace to scratchpad; every other
\* call leaves last_outcome and action_result alone, so the two are equal in
\* every reachable state.
C27_ResultFolded ==
    [][/\ bb'.last_outcome = bb'.action_result
       /\ IF last'.op \in CodeNodes /\ last'.executed /\ last'.raised # "SystemExit"
          THEN LET r == execute(StripText(last'.reply))
               IN /\ bb'.last_outcome = to_dict(r)
                  /\ bb'.scratchpad = Append(bb.scratchpad, build_scratchpad(r))
          ELSE bb'.last_outcome = bb.last_outcome]_vars

\* a second code run has replaced the result of the first
C27_Witness ==
    /\ last.op \in CodeNodes
    /\ last.executed
    /\ last.n = 2
    /\ Len(bb.scratchpad) = 2
    /\ bb.last_outcome.success
    /\ bb.last_outcome = bb.action_result

\* the state names generated code may put in next_state
NextStateVocabulary ==
    {T_RUN, T_OBSERVE, T_PLAN, T_REVIEW, T_COMMIT, T_NEED_USER, T_STOP}

\* the value the code put in its mapping's next_state, None if it put none
CodeNextState(code) == DictGet(code.result.d, "next_state", NoneVal)

\* C25 as stated: every Execution Result has next_state in the vocabulary,
\* whatever the generated code put in next_state.
C25_NextStateInVocabulary ==
    (last.op = "execute" /\ last.raised = "none")
        => last.result.next_state \in NextStateVocabulary

\* C25: the next_state of a success result is upper-case and is, up to letter
\* case, the text the code put in next_state (the empty text for an empty or
\* null value), so it is in the vocabulary exactly when the code put one of
\* the seven names there; every failure result has next_state REVIEW.
C25_NextStateUppercased ==
    (last.op = "execute" /\ last.raised = "none")
        => IF last.result.success
           THEN /\ last.result.next_state = Upper(last.result.next_state)
                /\ Lower(last.result.next_state)
                       = Lower(OrEmpty(CodeNextState(last.code)))
                /\ last.result.next_state \in NextStateVocabulary
                       <=> Upper(OrEmpty(CodeNextState(last.code)))
                               \in NextStateVocabulary
           ELSE last.result.next_state = T_REVIEW

\* execute returned a success result for code that spelled a name of the
\* vocabulary in lower case
C25_Witness ==
    /\ last.op = "execute"
    /\ last.raised = "none"
    /\ last.result.success
    /\ CodeNextState(last.code) = StrVal(X_run)
    /\ last.result.next_state = T_RUN

\* C26: a run sees the injected bindings only: a script that does not assign
\* __result__ yields missing_result and a script that reads a name that is
\* not injected fails with the NameError, whatever earlier runs have bound;
\* and no run changes the injected bindings.
C26_FreshScope ==
    [][last'.op = "execute"
          => /\ bb'.runtime_globals = bb.runtime_globals
             /\ (/\ last'.script.result = Unbound
                 /\ last'.script.reads \subseteq DOMAIN FreshScope(bb.runtime_globals))
                    => last'.result.error = StrVal(L_missing_result)
             /\ ~(last'.script.reads \subseteq DOMAIN FreshScope(bb.runtime_globals))
                    => /\ ~last'.result.success
                       /\ last'.result.next_step_hint = L_execution_error]_vars

\* a run that never assigns __result__ has ended in missing_result after an
\* earlier run bound both y and __result__
C26_Witness ==
    /\ last.op = "execute"
    /\ {"y", "__result__"} \subseteq last.before
    /\ last.script = Script({"api"}, {}, Unbound)
    /\ last.result.error = StrVal(L_missing_result)

\* the db_records of the response Commit parsed
ParsedRecords(reply) == CommitData(reply.parsed).db_records

\* C31 as stated: after a Commit run that returns, db_buffer is its previous
\* content followed by every record of the response, in order.
C31_EveryRecordAppended ==
    [][(last'.op = "commit" /\ last'.raised = "none")
          => bb'.db_buffer = bb.db_buffer \o ParsedRecords(last'.reply)]_vars

\* C31: after a Commit run that returns, db_buffer is its previous content
\* followed by the non-empty records of the response, in their order, each
\* once; an empty record is skipped.
C31_TruthyRecordsAppended ==
    [][(last'.op = "commit" /\ last'.raised = "none")
          => bb'.db_buffer =
                 bb.db_buffer \o SelectSeq(ParsedRecords(last'.reply), IsTruthyRecord)]_vars

\* Commit has appended the two non-empty records of a response of three
C31_Witness ==
    /\ last.op = "commit"
    /\ last.raised = "none"
    /\ Len(ParsedRecords(last.reply)) = 3
    /\ bb.db_buffer = <<[type |-> "fact"], [type |-> "note"]>>

\* the acknowledgement event of a note
AckEvent(note) == [type |-> "need_user_ack", message |-> note]

\* C32: NeedUser returns PLAN for every operator input, end of input
\* included, without invoking the model; it appends one acknowledgement
\* event when the trimmed text is non-empty and changes nothing otherwise;
\* no other field of the Blackboard changes.
C32_NeedUser ==
    [][last'.op = "need_user"
          => /\ last'.raised = "none"
             /\ last'.token = DriverState(T_PLAN)
             /\ bb' = [bb EXCEPT !.events =
                          IF last'.reply.eof \/ last'.reply.note = "" THEN @
                          ELSE Append(@, AckEvent(last'.reply.note))]]_vars

\* NeedUser has returned on a line of blanks after a note was acknowledged
C32_Witness ==
    /\ last.op = "need_user"
    /\ last.reply = Typed(TRUE, "")
    /\ bb.events = <<AckEvent("ok")>>

\* C33: in every phase run and transition the old scratchpad is a prefix of
\* the new one.
C33_ScratchpadMonotone ==
    [][IsPrefix(bb.scratchpad, bb'.scratchpad)]_vars

\* Plan has extended a scratchpad that held the trace of a code run
C33_Witness ==
    /\ last.op = "plan"
    /\ last.raised = "none"
    /\ Len(bb.scratchpad) = 2
    /\ bb.scratchpad[1].node = "ActionNode"
    /\ bb.scratchpad[2].node = "PlanNode"

\* C34: every run of Observe, Plan, ActionGen, Review and Commit invokes the
\* model at most once, also when the text is empty or unparseable or the
\* invocation fails; NeedUser never invokes it.
C34_NoRetry ==
    /\ last.op \in PhaseNodes => last.model_calls <= 1
    /\ last.op = "need_user" => last.model_calls = 0

\* a run has ended in the invocation error after its one invocation
C34_Witness ==
    /\ last.op = "review"
    /\ last.reply = InvocationError
    /\ last.raised = "ModelInvocationError"
    /\ last.model_calls = 1

\* C35: a run of Plan, ActionGen, Review or Commit whose model invocation
\* fails (invocation error, or no model bound) raises that error and leaves
\* the Blackboard and the driver state unchanged.
C35_InvocationFailure ==
    [][(/\ last'.op \in {"plan", "action_gen", "review", "commit"}
        /\ last'.reply \in {NoModel, InvocationError}
        /\ last'.model_calls = 1)
          => /\ last'.raised = CompleteRaises(last'.reply)
             /\ last'.raised \in ModelFailures
             /\ bb' = bb
             /\ state' = state]_vars

\* Plan has raised the invocation error on a Blackboard that holds a plan, a
\* cursor past its start and the trace of a code run
C35_Witness ==
    /\ last.op = "plan"
    /\ last.reply = InvocationError
    /\ last.raised = "ModelInvocationError"
    /\ bb.step_index > 0
    /\ bb.plan # <<>>
    /\ bb.scratchpad # <<>>

\* C37: after every Observe run observation_requests is empty, and no other
\* call removes entries from it.
C37_ObserveDrains ==
    [][/\ last'.op = "observe" => bb'.observation_requests = <<>>
       /\ last'.op # "observe"
              => IsPrefix(bb.observation_requests, bb'.observation_requests)]_vars

ReviewToActionGen == state = DriverState(T_REVIEW) /\ state' = DriverState(T_ACTION_GEN)

\* in the driving loop no step leads from REVIEW straight to ACTION_GEN
ReviewNeverHandsBack == [][~ReviewToActionGen]_vars

\* C36: the two edges of the REVIEW/ACTION_GEN cycle are there to be taken
\* again and again: an ActionGen run whose code fails leaves the driver in
\* REVIEW, and a Review run whose patch was executed and asks for RUN, or
\* fails again, leaves the driver in ACTION_GEN or REVIEW, not in a terminal
\* state.
C36_ReviewCycle ==
    [][/\ (/\ last'.op = "action_gen"
           /\ last'.executed
           /\ last'.raised = "none"
           /\ ~bb'.last_outcome.success)
             => state' = DriverState(T_REVIEW)
       /\ (/\ last'.op = "review"
           /\ last'.executed
           /\ last'.raised # "SystemExit"
           /\ bb'.last_outcome.next_state \in {T_RUN, T_REVIEW})
             => /\ last'.raised = "none"
                /\ last'.fed_raised = "none"
                /\ state' \in {DriverState(T_ACTION_GEN), DriverState(T_REVIEW)}]_vars

\* C39: transition called with a token that is neither the advance token
\* nor a state token, in any letter case, raises ValueError and leaves the
\* driver state and the Blackboard (step_index, plan, current_step) as they
\* were.
C39_UnknownTokenRejected ==
    [][(last'.op = "transition" /\ Upper(last'.token) \notin StateTokens \cup {T_RUN})
          => /\ last'.raised = "ValueError"
             /\ state' = state
             /\ bb' = bb]_vars

\* transition has rejected an unknown token in a state other than the
\* initial one, the cursor past the start of the plan
C39_Witness ==
    /\ last.op = "transition"
    /\ last.token = X_bogus
    /\ last.raised = "ValueError"
    /\ state = DriverState(T_COMMIT)
    /\ bb.step_index > 0
    /\ bb.plan # <<>>

\* the last n entries of a sequence
LastEntries(s, n) == IF Len(s) <= n THEN s ELSE SubSeq(s, Len(s) - n + 1, Len(s))

====
